---- MODULE Spec2Model ----
(***************************************************************************)
(* Commission attribution and payout engine of agnuslink-backend.          *)
(*                                                                         *)
(* The database tables are sequences indexed by primary key (row i has     *)
(* id i).  A NULL column is 0; timestamps are readings of the clock `now`, *)
(* which starts at 1.  Money is kept in whole currency units.  Each        *)
(* request handler is one atomic action that ends in a commit or a         *)
(* rollback; `resp` holds the response of the last handler together with   *)
(* the inputs and locals of that handler that the properties speak about.  *)
(* The conversion and the payout request are also given step by step, one  *)
(* database session per request in flight (`sessions`): a session reads    *)
(* committed rows, keeps its own writes until it commits, and loses them   *)
(* when the handler rolls back.                                            *)
(* Columns no modelled handler reads (names, contact data) are left out of *)
(* the rows; the editable columns of a lead are represented by `notes`.    *)
(* One unit of the clock is one calendar month.                            *)
(***************************************************************************)
EXTENDS Integers, Sequences, FiniteSets, TLC

VARIABLES users, leads, commissions, settings, now, resp, sessions

vars == <<users, leads, commissions, settings, now, resp, sessions>>

(***************************************************************************)
(* Bounds of the model.                                                    *)
(***************************************************************************)
MaxUsers == 2
MaxLeads == 2
MaxCommissions == 2
MaxSettings == 2
MaxTime == 2
MaxSessions == 2
MaxTreeUsers == 4
MaxLedgerRows == 2
MaxGraphUsers == 3

(***************************************************************************)
(* Program constants.                                                      *)
(***************************************************************************)
DefaultPrimaryPct == 50
DefaultReferringPct == 25
BaseAmount == 1000
DefaultDealValue == 1000
UserTreeDepth == 2
AdminTreeDepth == 3

NULL == 0

(***************************************************************************)
(* Inputs the callers draw from.                                           *)
(***************************************************************************)
PctInputs == {10, 40}
DealValues == {DefaultDealValue, 2 * DefaultDealValue}
LeadStatuses == {"submitted", "in_review", "qualified", "sold", "unqualified"}
StatusInputs == LeadStatuses \cup {"", "archived"}
PaymentMethods == {"paypal", "bank_transfer"}
MethodInputs == PaymentMethods \cup {"", "check"}
PayoutAmounts == {-100, 0, 250, 600}
ManualAmounts == {-100, 0, 250}
NoteInputs == {"", "note"}
ContentInputs == {"", "note", " note "}
FileNames == {"", "a.pdf"}

\* The clock counts calendar months from the January of year 0.
MonthsPerYear == 12
YearOf(t) == (t - 1) \div MonthsPerYear
MonthOf(t) == ((t - 1) % MonthsPerYear) + 1

(***************************************************************************)
(* Helpers over finite sets and sequences.                                 *)
(***************************************************************************)
RECURSIVE SumOver(_, _)
SumOver(S, f) ==
    IF S = {} THEN 0
    ELSE LET x == CHOOSE y \in S : TRUE
         IN  f[x] + SumOver(S \ {x}, f)

Ids(table) == DOMAIN table

Amounts(cs) == [i \in Ids(cs) |-> cs[i].amount]

\* No referral tree (None).
NoTree == [id |-> NULL, children |-> {}]

NoResp == [op |-> "none", code |-> "", user |-> NULL, lead |-> NULL,
           arg |-> "", args |-> <<>>, amount |-> 0, created |-> {},
           stamped |-> {}, row |-> NULL, tree |-> NoTree]

\* An error response: the error code, and nothing of the request.
Failure(op, code) == [NoResp EXCEPT !.op = op, !.code = code]

(***************************************************************************)
(* Rate settings store.                                                    *)
(***************************************************************************)
NewSettingsRow(p, r, t) ==
    [primary_affiliate_percentage |-> p,
     referring_affiliate_percentage |-> r,
     is_active |-> TRUE,
     effective_from |-> t]

DefaultSettingsRow(t) == NewSettingsRow(DefaultPrimaryPct, DefaultReferringPct, t)

ActiveRows(s) == {i \in Ids(s) : s[i].is_active}

\* filter_by(is_active=True).order_by(effective_from.desc()).first():
\* the rows the query may return first (rows of equal effective_from come
\* back in an order the database is free to choose).
CurrentCandidates(s) ==
    {i \in ActiveRows(s) :
        \A j \in ActiveRows(s) : s[j].effective_from <= s[i].effective_from}

\* Mutant of SettingsAfterGet: a default row is added on every call.
InsertDefault(s, t) == Append(s, DefaultSettingsRow(t))

\* The table after get_current_settings: a default row is added and
\* committed when no active row exists.
SettingsAfterGet(s, t) ==
    IF ActiveRows(s) = {} THEN Append(s, DefaultSettingsRow(t)) ELSE s

\* Mutant of DeactivateAll: the earlier rows are deleted, not superseded.
DeleteAll(s) == <<>>

\* Query.update({'is_active': False}) over every row.
DeactivateAll(s) == [i \in Ids(s) |-> [s[i] EXCEPT !.is_active = FALSE]]

\* Mutant of SettingsAfterCreate: the earlier rows are left active.
AppendOnly(s, p, r, t) == Append(s, NewSettingsRow(p, r, t))

\* create_new_settings: deactivate all rows, insert the new active row.
SettingsAfterCreate(s, p, r, t) ==
    Append(DeactivateAll(s), NewSettingsRow(p, r, t))

GetActive ==
    /\ settings' = SettingsAfterGet(settings, now)
    /\ \E i \in CurrentCandidates(settings') :
          resp' = [NoResp EXCEPT !.op = "getActive", !.code = "OK", !.row = i]
    /\ UNCHANGED <<users, leads, commissions, now, sessions>>

SetNew(p, r) ==
    /\ Len(settings) < MaxSettings
    /\ settings' = SettingsAfterCreate(settings, p, r, now)
    /\ resp' = [NoResp EXCEPT !.op = "setNew", !.code = "OK",
                              !.row = Len(settings')]
    /\ UNCHANGED <<users, leads, commissions, now, sessions>>

(***************************************************************************)
(* Affiliates.                                                             *)
(***************************************************************************)
NewUser(ref) ==
    [referred_by_id |-> ref, paypal_email |-> FALSE,
     bank_account_number |-> FALSE]

\* Mutant of Register: the referral code is not looked up.
RegisterUnchecked(code) ==
    /\ Len(users) < MaxUsers
    /\ users' = Append(users, NewUser(code))
    /\ resp' = [NoResp EXCEPT !.op = "register", !.code = "OK",
                              !.user = Len(users')]
    /\ UNCHANGED <<leads, commissions, settings, now, sessions>>

\* register: `code` is the referral code typed in, given as the id of the
\* user who owns it (NULL: no code, an id of no user: an unknown code).
Register(code) ==
    /\ Len(users) < MaxUsers
    /\ IF code # NULL /\ code \notin Ids(users)
       THEN /\ resp' = Failure("register", "INVALID_REFERRAL")
            /\ UNCHANGED users
       ELSE /\ users' = Append(users, NewUser(code))
            /\ resp' = [NoResp EXCEPT !.op = "register", !.code = "OK",
                                      !.user = Len(users')]
    /\ UNCHANGED <<leads, commissions, settings, now, sessions>>

\* user.referrals: the users referred by u.
Referrals(us, u) == {c \in Ids(us) : us[c].referred_by_id = u}

\* Mutant of BuildTree: the recursion stops one level later.
RECURSIVE BuildTreeDeeper(_, _, _, _)
BuildTreeDeeper(us, u, max_depth, current_depth) ==
    IF current_depth > max_depth THEN NoTree
    ELSE [id |-> u,
          children |->
             {child_tree \in {BuildTreeDeeper(us, referral, max_depth,
                                              current_depth + 1) :
                                 referral \in Referrals(us, u)} :
                 child_tree.id # NULL}]

\* build_tree(user, max_depth, current_depth) of get_referral_tree and of
\* get_user_tree; the children are kept as a set.
RECURSIVE BuildTree(_, _, _, _)
BuildTree(us, u, max_depth, current_depth) ==
    IF current_depth >= max_depth THEN NoTree
    ELSE [id |-> u,
          children |->
             {child_tree \in {BuildTree(us, referral, max_depth,
                                        current_depth + 1) :
                                 referral \in Referrals(us, u)} :
                 child_tree.id # NULL}]

\* build_tree(user, max_depth) on user u, for any max_depth.
CallBuildTree(u, max_depth) ==
    /\ u \in Ids(users)
    /\ resp' = [NoResp EXCEPT !.op = "buildTree", !.code = "OK",
                   !.user = u, !.args = <<max_depth>>,
                   !.tree = BuildTree(users, u, max_depth, 0)]
    /\ UNCHANGED <<users, leads, commissions, settings, now, sessions>>

\* get_referral_tree (GET /referrals/tree) by user u.
GetReferralTree(u) ==
    /\ resp' = IF u \notin Ids(users)
               THEN Failure("tree", "USER_NOT_FOUND")
               ELSE [NoResp EXCEPT !.op = "tree", !.code = "OK",
                        !.user = u, !.args = <<UserTreeDepth>>,
                        !.tree = BuildTree(users, u, UserTreeDepth, 0)]
    /\ UNCHANGED <<users, leads, commissions, settings, now, sessions>>

\* get_user_tree (GET /users/<id>/tree) on user u.
GetUserTree(u) ==
    /\ resp' = IF u \notin Ids(users)
               THEN Failure("tree", "USER_NOT_FOUND")
               ELSE [NoResp EXCEPT !.op = "tree", !.code = "OK",
                        !.user = u, !.args = <<AdminTreeDepth>>,
                        !.tree = BuildTree(users, u, AdminTreeDepth, 0)]
    /\ UNCHANGED <<users, leads, commissions, settings, now, sessions>>

\* update_profile: the payment fields are set to the stripped value, or to
\* None when the value sent is empty (TRUE: populated, FALSE: None).
UpdateProfile(u, paypal, bank) ==
    /\ u \in Ids(users)
    /\ users' = [users EXCEPT ![u] = [@ EXCEPT !.paypal_email = paypal,
                                               !.bank_account_number = bank]]
    /\ users' # users
    /\ resp' = [NoResp EXCEPT !.op = "profile", !.code = "OK", !.user = u]
    /\ UNCHANGED <<leads, commissions, settings, now, sessions>>

(***************************************************************************)
(* Commission ledger.                                                      *)
(***************************************************************************)
NewCommission(lead_id, affiliate_id, type, pct, amount, status, t) ==
    [lead_id |-> lead_id, affiliate_id |-> affiliate_id,
     commission_type |-> type, percentage |-> pct, amount |-> amount,
     status |-> status, payout_requested_at |-> NULL,
     approved_at |-> NULL, paid_at |-> NULL, created_at |-> t]

\* calculate_commissions: the commission table after the conversion of
\* lead l, computed with settings row srow.
CalculateCommissions(cs, l, us, ls, srow, t) ==
    LET base == BaseAmount
        submitter == ls[l].submitted_by_id
        referrer == us[submitter].referred_by_id
        primary == NewCommission(l, submitter, "primary",
                       srow.primary_affiliate_percentage,
                       (base * srow.primary_affiliate_percentage) \div 100,
                       "pending", t)
        referral == NewCommission(l, referrer, "referral",
                       srow.referring_affiliate_percentage,
                       (base * srow.referring_affiliate_percentage) \div 100,
                       "pending", t)
    IN  IF referrer # NULL
        THEN Append(Append(cs, primary), referral)
        ELSE Append(cs, primary)

\* Rows a conversion of lead l adds.
ConversionSize(l) ==
    IF users[leads[l].submitted_by_id].referred_by_id # NULL THEN 2 ELSE 1

\* Commission.approve
ApproveRow(c, t) == [c EXCEPT !.status = "approved", !.approved_at = t]

\* Commission.mark_as_paid
MarkPaidRow(c, t) == [c EXCEPT !.status = "paid", !.paid_at = t]

Approve(c) ==
    /\ c \in Ids(commissions)
    /\ commissions' = [commissions EXCEPT ![c] = ApproveRow(@, now)]
    /\ resp' = [NoResp EXCEPT !.op = "approve", !.code = "OK", !.row = c]
    /\ UNCHANGED <<users, leads, settings, now, sessions>>

MarkPaid(c) ==
    /\ c \in Ids(commissions)
    /\ commissions' = [commissions EXCEPT ![c] = MarkPaidRow(@, now)]
    /\ resp' = [NoResp EXCEPT !.op = "markPaid", !.code = "OK", !.row = c]
    /\ UNCHANGED <<users, leads, settings, now, sessions>>

\* get_total_by_affiliate(affiliate_id, status)
GetTotalByAffiliate(cs, u, status) ==
    SumOver({i \in Ids(cs) : cs[i].affiliate_id = u /\ cs[i].status = status},
            Amounts(cs))

\* Mutant of GetMonthlyEarnings: the year of paid_at is not compared.
EarningsOfAnyYear(cs, u, year, month) ==
    SumOver({i \in Ids(cs) : /\ cs[i].affiliate_id = u
                             /\ cs[i].status = "paid"
                             /\ cs[i].paid_at # NULL
                             /\ MonthOf(cs[i].paid_at) = month},
            Amounts(cs))

\* get_monthly_earnings(affiliate_id, year, month)
GetMonthlyEarnings(cs, u, year, month) ==
    SumOver({i \in Ids(cs) : /\ cs[i].affiliate_id = u
                             /\ cs[i].status = "paid"
                             /\ cs[i].paid_at # NULL
                             /\ YearOf(cs[i].paid_at) = year
                             /\ MonthOf(cs[i].paid_at) = month},
            Amounts(cs))

\* The monthly earnings of user u, as the dashboards ask for them.
MonthlyEarnings(u, year, month) ==
    /\ u \in Ids(users)
    /\ resp' = [NoResp EXCEPT !.op = "earnings", !.code = "OK", !.user = u,
                   !.args = <<year, month>>,
                   !.amount = GetMonthlyEarnings(commissions, u, year,
                                                 month)]
    /\ UNCHANGED <<users, leads, commissions, settings, now, sessions>>

\* commissions.lead_id is declared nullable=False.
LeadIdNullable == FALSE

\* create_manual_commission: the row is built with lead_id=None; when the
\* column rejects NULL the commit raises and the handler rolls back.

CreateManual(u, amount) ==
    /\ LET code == IF amount = 0 THEN "VALIDATION_ERROR"
                   ELSE IF u \notin Ids(users) THEN "USER_NOT_FOUND"
                   ELSE IF amount <= 0 THEN "INVALID_AMOUNT"
                   ELSE IF ~LeadIdNullable THEN "INTERNAL_ERROR"
                   ELSE "OK"
       IN  IF code = "OK"
           THEN /\ Len(commissions) < MaxCommissions
                /\ commissions' = Append(commissions,
                       NewCommission(NULL, u, "bonus", 0, amount,
                                     "approved", now))
                /\ resp' = [NoResp EXCEPT !.op = "createManual",
                               !.code = "OK", !.user = u, !.amount = amount,
                               !.created = {Len(commissions')}]
           ELSE /\ UNCHANGED commissions
                /\ resp' = Failure("createManual", code)
    /\ UNCHANGED <<users, leads, settings, now, sessions>>

(***************************************************************************)
(* Lead lifecycle.                                                         *)
(***************************************************************************)
\* The numbers generate_lead_id may draw (of the thousand three-digit
\* ones).
SuffixInputs == 0 .. MaxLeads

\* f"LEAD-{year}-{random_num}"
LeadIdOf(year, suffix) == <<year, suffix>>

\* Mutant of UnusedLeadId: every drawn identifier is accepted.
AnyLeadId(ls, id) == TRUE

\* The test that ends the loop of generate_lead_id (and the unique
\* constraint of the column): no lead carries the identifier.
UnusedLeadId(ls, id) == \A i \in Ids(ls) : ls[i].lead_id # id

\* No attachment.
NoUrl == <<>>

\* f"/uploads/leads/lead_{lead_id}_{file.filename}"
AttachmentUrl(l, filename) == <<l, filename>>

\* str.strip on the values sent for the editable columns.
Strip(v) == IF v = " note " THEN "note" ELSE v

NewLead(u, sec, id, t) ==
    [lead_id |-> id, submitted_by_id |-> u, secondary_referrer_id |-> sec,
     status |-> "submitted", notes |-> "", attachment_url |-> NoUrl,
     admin_notes |-> "", updated_at |-> t, converted_at |-> NULL]

\* create_lead by user u with an optional secondary referrer; suffix is
\* the number drawn by the last round of the loop of generate_lead_id.
Submit(u, sec, suffix) ==
    /\ u \in Ids(users)
    /\ Len(leads) < MaxLeads
    /\ IF sec # NULL /\ sec \notin Ids(users)
       THEN /\ resp' = Failure("submit", "INVALID_REFERRER")
            /\ UNCHANGED leads
       ELSE /\ UnusedLeadId(leads, LeadIdOf(YearOf(now), suffix))
            /\ leads' = Append(leads,
                   NewLead(u, sec, LeadIdOf(YearOf(now), suffix), now))
            /\ resp' = [NoResp EXCEPT !.op = "submit", !.code = "OK",
                                      !.user = u, !.lead = Len(leads')]
    /\ UNCHANGED <<users, commissions, settings, now, sessions>>

\* Mutant of StatusRow: the notes sent replace the recorded ones even when
\* they are empty.
StatusRowOverwrite(lead, new_status, notes, t) ==
    [lead EXCEPT !.status = new_status,
                 !.updated_at = t,
                 !.admin_notes = notes,
                 !.converted_at = IF new_status = "sold" THEN t ELSE @]

\* Lead.update_status on the lead row alone.
StatusRow(lead, new_status, notes, t) ==
    [lead EXCEPT !.status = new_status,
                 !.updated_at = t,
                 !.admin_notes = IF notes # "" THEN notes ELSE @,
                 !.converted_at = IF new_status = "sold" THEN t ELSE @]

\* Lead.update_status, with the commission generation it triggers.
UpdateStatus(l, new_status, notes) ==
    /\ leads' = [leads EXCEPT ![l] = StatusRow(@, new_status, notes, now)]
    /\ IF new_status = "sold"
       THEN /\ Len(commissions) + ConversionSize(l) <= MaxCommissions
            /\ settings' = SettingsAfterGet(settings, now)
            /\ \E i \in CurrentCandidates(settings') :
                  commissions' = CalculateCommissions(commissions, l, users,
                                     leads, settings'[i], now)
       ELSE UNCHANGED <<settings, commissions>>

\* update_lead_status (PUT /leads/<id>/status)
UpdateLeadStatus(l, new_status, notes) ==
    /\ LET code == IF new_status = "" THEN "VALIDATION_ERROR"
                   ELSE IF new_status \notin LeadStatuses THEN "INVALID_STATUS"
                   ELSE IF l \notin Ids(leads) THEN "LEAD_NOT_FOUND"
                   ELSE "OK"
       IN  IF code = "OK"
           THEN /\ UpdateStatus(l, new_status, notes)
                /\ resp' = [NoResp EXCEPT !.op = "transition", !.code = "OK",
                               !.lead = l, !.arg = new_status,
                               !.created = (Len(commissions) + 1)
                                              .. Len(commissions')]
           ELSE /\ UNCHANGED <<leads, commissions, settings>>
                /\ resp' = Failure("transition", code)
    /\ UNCHANGED <<users, now, sessions>>

\* convert_lead (POST /leads/<id>/convert): deal_value is read from the
\* request and used nowhere; the response record keeps it as the amount.
ConvertLead(l, deal_value) ==
    /\ LET code == IF l \notin Ids(leads) THEN "LEAD_NOT_FOUND"
                   ELSE IF leads[l].status = "sold" THEN "ALREADY_CONVERTED"
                   ELSE "OK"
       IN  IF code = "OK"
           THEN /\ UpdateStatus(l, "sold", "")
                /\ resp' = [NoResp EXCEPT !.op = "convert", !.code = "OK",
                               !.lead = l, !.amount = deal_value,
                               !.created = (Len(commissions) + 1)
                                              .. Len(commissions')]
           ELSE /\ UNCHANGED <<leads, commissions, settings>>
                /\ resp' = Failure("convert", code)
    /\ UNCHANGED <<users, now, sessions>>

\* update_lead (PUT /leads/<id>) by user u: the editable columns.
UpdateLead(u, l, notes) ==
    /\ u \in Ids(users)
    /\ LET code == IF l \notin Ids(leads) THEN "LEAD_NOT_FOUND"
                   ELSE IF leads[l].submitted_by_id # u THEN "LEAD_NOT_FOUND"
                   ELSE IF leads[l].status \in {"sold", "unqualified"}
                        THEN "LEAD_LOCKED"
                   ELSE "OK"
       IN  IF code = "OK"
           THEN /\ leads' = [leads EXCEPT ![l] =
                                 [@ EXCEPT !.notes = Strip(notes),
                                           !.updated_at = now]]
                /\ resp' = [NoResp EXCEPT !.op = "edit", !.code = "OK",
                                          !.user = u, !.lead = l]
           ELSE /\ UNCHANGED leads
                /\ resp' = Failure("edit", code)
    /\ UNCHANGED <<users, commissions, settings, now, sessions>>

\* upload_lead_attachment (POST /leads/<id>/upload) by user u; filename ""
\* stands for a request without a file.
UploadLeadAttachment(u, l, filename) ==
    /\ u \in Ids(users)
    /\ LET code == IF l \notin Ids(leads) THEN "LEAD_NOT_FOUND"
                   ELSE IF leads[l].submitted_by_id # u THEN "LEAD_NOT_FOUND"
                   ELSE IF filename = "" THEN "NO_FILE"
                   ELSE "OK"
       IN  IF code = "OK"
           THEN /\ leads' = [leads EXCEPT ![l] =
                                 [@ EXCEPT !.attachment_url =
                                               AttachmentUrl(l, filename),
                                           !.updated_at = now]]
                /\ resp' = [NoResp EXCEPT !.op = "upload", !.code = "OK",
                                          !.user = u, !.lead = l]
           ELSE /\ UNCHANGED leads
                /\ resp' = Failure("upload", code)
    /\ UNCHANGED <<users, commissions, settings, now, sessions>>

(***************************************************************************)
(* Payout allocator.                                                       *)
(***************************************************************************)
\* filter_by(affiliate_id=user_id, status='approved')
ApprovedOf(cs, u) ==
    {i \in Ids(cs) : cs[i].affiliate_id = u /\ cs[i].status = "approved"}

\* order_by(created_at.asc()).all(): the orders the query may return the
\* rows of S in (rows of equal created_at come back in an order the
\* database is free to choose).
CreatedOrders(cs, S) ==
    {o \in [1 .. Cardinality(S) -> S] :
        /\ \A a, b \in DOMAIN o : a # b => o[a] # o[b]
        /\ \A a, b \in DOMAIN o :
              a < b => cs[o[a]].created_at <= cs[o[b]].created_at}

\* Mutant of Walk: a commission is taken whether or not it fits the
\* remaining amount.
RECURSIVE WalkOverdraw(_, _, _, _)
WalkOverdraw(cs, order, i, remaining) ==
    IF i > Len(order) \/ remaining <= 0 THEN {}
    ELSE {order[i]} \cup
         WalkOverdraw(cs, order, i + 1, remaining - cs[order[i]].amount)

\* The loop of request_payout from position i on: the ids appended to
\* updated_commissions.
RECURSIVE Walk(_, _, _, _)
Walk(cs, order, i, remaining) ==
    IF i > Len(order) \/ remaining <= 0 THEN {}
    ELSE IF cs[order[i]].amount <= remaining
         THEN {order[i]} \cup
              Walk(cs, order, i + 1, remaining - cs[order[i]].amount)
         ELSE {}

\* Mutant of Stamp: the selected rows are marked paid as well.
StampAndPay(cs, S, t) ==
    [i \in Ids(cs) |->
        IF i \in S THEN [cs[i] EXCEPT !.payout_requested_at = t,
                                      !.status = "paid", !.paid_at = t]
        ELSE cs[i]]

\* The rows after the loop: the selected ones carry payout_requested_at.
Stamp(cs, S, t) ==
    [i \in Ids(cs) |->
        IF i \in S THEN [cs[i] EXCEPT !.payout_requested_at = t] ELSE cs[i]]

\* The validation of request_payout, in the order of the code.
PayoutCode(cs, us, u, amount, method) ==
    IF amount = 0 \/ method = "" THEN "VALIDATION_ERROR"
    ELSE IF amount <= 0 THEN "INVALID_AMOUNT"
    ELSE IF amount > GetTotalByAffiliate(cs, u, "approved")
         THEN "INSUFFICIENT_BALANCE"
    ELSE IF method \notin PaymentMethods THEN "INVALID_PAYMENT_METHOD"
    ELSE IF method = "paypal" /\ ~us[u].paypal_email
         THEN "MISSING_PAYMENT_INFO"
    ELSE IF method = "bank_transfer" /\ ~us[u].bank_account_number
         THEN "MISSING_PAYMENT_INFO"
    ELSE "OK"

\* The 'amount' of the payout_request summary in the response.
SummaryAmount(cs, amount, selected) == amount

\* request_payout (POST /payout-request) by user u.
RequestPayout(u, amount, method) ==
    /\ u \in Ids(users)
    /\ LET code == PayoutCode(commissions, users, u, amount, method)
       IN  IF code = "OK"
           THEN \E order \in CreatedOrders(commissions,
                                           ApprovedOf(commissions, u)) :
                   LET selected == Walk(commissions, order, 1, amount)
                   IN  /\ commissions' = Stamp(commissions, selected, now)
                       /\ resp' = [NoResp EXCEPT !.op = "payout",
                              !.code = "OK", !.user = u, !.arg = method,
                              !.amount = SummaryAmount(commissions, amount,
                                                       selected),
                              !.stamped = selected]
           ELSE /\ UNCHANGED commissions
                /\ resp' = Failure("payout", code)
    /\ UNCHANGED <<users, leads, settings, now, sessions>>

(***************************************************************************)
(* Clock.                                                                  *)
(***************************************************************************)
Tick ==
    /\ now < MaxTime
    /\ now' = now + 1
    /\ resp' = NoResp
    /\ UNCHANGED <<users, leads, commissions, settings, sessions>>

(***************************************************************************)
(* The conversion and the payout request, step by step.                    *)
(***************************************************************************)
Sessions == 1 .. MaxSessions

\* A session with no request: nothing read, nothing pending.
NoSession ==
    [op |-> "none", pc |-> "idle", code |-> "", user |-> NULL,
     lead |-> NULL, amount |-> 0, method |-> "", pre |-> <<>>,
     lead_w |-> <<>>, srow |-> <<>>, added |-> <<>>, created |-> {},
     order |-> <<>>, stamped |-> {}, at |-> NULL, lead_id |-> <<>>]

InFlight(r) == sessions[r].pc \notin {"idle", "done"}

\* The rows the conversions in flight are going to insert.
PendingSize ==
    SumOver({r \in Sessions : InFlight(r) /\ sessions[r].op = "convert"},
            [r \in Sessions |-> ConversionSize(sessions[r].lead)])

\* The flush of a session: the UPDATE of the columns update_status has
\* assigned on the lead of the session, if any is pending.
Flush(ls, sn) ==
    IF sn.lead_w = <<>> THEN ls
    ELSE [ls EXCEPT ![sn.lead] =
             [@ EXCEPT !.status = sn.lead_w[1].status,
                       !.updated_at = sn.lead_w[1].updated_at,
                       !.converted_at = sn.lead_w[1].converted_at]]

\* The INSERT of the pending commissions at time t.
Inserted(cs, added, t) ==
    cs \o [i \in DOMAIN added |-> [added[i] EXCEPT !.created_at = t]]

\* convert_lead: Lead.query.get and the two tests on the lead.
ReadStatus(r, l) ==
    /\ ~InFlight(r)
    /\ LET code == IF l \notin Ids(leads) THEN "LEAD_NOT_FOUND"
                   ELSE IF leads[l].status = "sold" THEN "ALREADY_CONVERTED"
                   ELSE "OK"
       IN  /\ code = "OK" =>
                 Len(commissions) + PendingSize + ConversionSize(l)
                    <= MaxCommissions
           /\ sessions' = [sessions EXCEPT ![r] =
                 [NoSession EXCEPT
                    !.op = "convert", !.lead = l,
                    !.pc = IF code = "OK" THEN "status" ELSE "done",
                    !.code = IF code = "OK" THEN "" ELSE code,
                    !.pre = IF l \in Ids(leads)
                            THEN <<[status |-> leads[l].status,
                                    converted_at |-> leads[l].converted_at,
                                    commissions |-> commissions]>>
                            ELSE <<>>]]
    /\ UNCHANGED <<users, leads, commissions, settings, now, resp>>

\* Lead.update_status('sold'): the assignments to the lead object.
WriteStatus(r) ==
    /\ sessions[r].pc = "status"
    /\ sessions' = [sessions EXCEPT ![r] =
          [@ EXCEPT !.pc = "settings",
                    !.lead_w = <<[status |-> "sold", updated_at |-> now,
                                  converted_at |-> now]>>]]
    /\ UNCHANGED <<users, leads, commissions, settings, now, resp>>

\* get_current_settings: without an active row a default row is added and
\* the session is committed, the pending write of the lead with it.
LookupSettings(r) ==
    /\ sessions[r].pc = "settings"
    /\ settings' = SettingsAfterGet(settings, now)
    /\ leads' = IF settings' # settings THEN Flush(leads, sessions[r])
                ELSE leads
    /\ \E i \in CurrentCandidates(settings') :
          sessions' = [sessions EXCEPT ![r] =
             [@ EXCEPT !.pc = "primary",
                       !.srow = <<settings'[i]>>,
                       !.lead_w = IF settings' # settings THEN <<>> ELSE @]]
    /\ UNCHANGED <<users, commissions, now, resp>>

\* calculate_commissions: the primary commission is added to the session.
CreatePrimary(r) ==
    /\ sessions[r].pc = "primary"
    /\ LET sn == sessions[r]
           pct == sn.srow[1].primary_affiliate_percentage
       IN  sessions' = [sessions EXCEPT ![r] =
              [@ EXCEPT !.pc = "referrer",
                        !.added = <<NewCommission(sn.lead,
                                       leads[sn.lead].submitted_by_id,
                                       "primary", pct,
                                       (BaseAmount * pct) \div 100,
                                       "pending", now)>>]]
    /\ UNCHANGED <<users, leads, commissions, settings, now, resp>>

\* calculate_commissions: if self.submitted_by.referred_by_id
LookupReferrer(r) ==
    /\ sessions[r].pc = "referrer"
    /\ LET submitter == leads[sessions[r].lead].submitted_by_id
       IN  sessions' = [sessions EXCEPT ![r] =
              [@ EXCEPT !.pc = IF users[submitter].referred_by_id # NULL
                               THEN "referral" ELSE "commit"]]
    /\ UNCHANGED <<users, leads, commissions, settings, now, resp>>

\* calculate_commissions: the referral commission is added to the session.
CreateReferral(r) ==
    /\ sessions[r].pc = "referral"
    /\ LET sn == sessions[r]
           pct == sn.srow[1].referring_affiliate_percentage
           submitter == leads[sn.lead].submitted_by_id
       IN  sessions' = [sessions EXCEPT ![r] =
              [@ EXCEPT !.pc = "commit",
                        !.added = Append(@, NewCommission(sn.lead,
                                       users[submitter].referred_by_id,
                                       "referral", pct,
                                       (BaseAmount * pct) \div 100,
                                       "pending", now))]]
    /\ UNCHANGED <<users, leads, commissions, settings, now, resp>>

\* The commit that ends calculate_commissions; the commit of convert_lead
\* after it finds nothing to write, and the handler answers.
CommitConversion(r) ==
    /\ sessions[r].pc = "commit"
    /\ leads' = Flush(leads, sessions[r])
    /\ commissions' = Inserted(commissions, sessions[r].added, now)
    /\ sessions' = [sessions EXCEPT ![r] =
          [@ EXCEPT !.pc = "done", !.code = "OK", !.lead_w = <<>>,
                    !.added = <<>>,
                    !.created = (Len(commissions) + 1) .. Len(commissions')]]
    /\ UNCHANGED <<users, settings, now, resp>>

\* An exception in the step the conversion is about to take: the handler
\* rolls the session back and answers INTERNAL_ERROR.
Raise(r) ==
    /\ sessions[r].op = "convert"
    /\ InFlight(r)
    /\ sessions' = [sessions EXCEPT ![r] =
          [@ EXCEPT !.pc = "done", !.code = "INTERNAL_ERROR",
                    !.lead_w = <<>>, !.added = <<>>]]
    /\ UNCHANGED <<users, leads, commissions, settings, now, resp>>

\* request_payout: the validation, with the balance check.
CheckBalance(r, u, amount, method) ==
    /\ ~InFlight(r)
    /\ u \in Ids(users)
    /\ LET code == PayoutCode(commissions, users, u, amount, method)
       IN  sessions' = [sessions EXCEPT ![r] =
              [NoSession EXCEPT
                 !.op = "payout", !.user = u, !.amount = amount,
                 !.method = method,
                 !.pc = IF code = "OK" THEN "read" ELSE "done",
                 !.code = IF code = "OK" THEN "" ELSE code]]
    /\ UNCHANGED <<users, leads, commissions, settings, now, resp>>

\* request_payout: the query of the approved commissions, oldest first.
ReadApproved(r) ==
    /\ sessions[r].pc = "read"
    /\ \E order \in CreatedOrders(commissions,
                      ApprovedOf(commissions, sessions[r].user)) :
          sessions' = [sessions EXCEPT ![r] =
             [@ EXCEPT !.pc = "stamp", !.order = order]]
    /\ UNCHANGED <<users, leads, commissions, settings, now, resp>>

\* request_payout: the loop that stamps the commissions it selects.
StampSelected(r) ==
    /\ sessions[r].pc = "stamp"
    /\ sessions' = [sessions EXCEPT ![r] =
          [@ EXCEPT !.pc = "pay",
                    !.stamped = Walk(commissions, sessions[r].order, 1,
                                     sessions[r].amount),
                    !.at = now]]
    /\ UNCHANGED <<users, leads, commissions, settings, now, resp>>

\* request_payout: the commit, and the answer.
CommitPayout(r) ==
    /\ sessions[r].pc = "pay"
    /\ commissions' = Stamp(commissions, sessions[r].stamped,
                            sessions[r].at)
    /\ sessions' = [sessions EXCEPT ![r] =
          [@ EXCEPT !.pc = "done", !.code = "OK"]]
    /\ UNCHANGED <<users, leads, settings, now, resp>>

\* create_lead by user u, up to the construction of the Lead: the year
\* generate_lead_id reads before its loop.
BeginSubmit(r, u) ==
    /\ ~InFlight(r)
    /\ u \in Ids(users)
    /\ sessions' = [sessions EXCEPT ![r] =
          [NoSession EXCEPT !.op = "submit", !.pc = "generate",
                            !.user = u, !.at = now]]
    /\ UNCHANGED <<users, leads, commissions, settings, now, resp>>

\* One round of the loop of generate_lead_id: a number is drawn, and the
\* identifier is returned when no lead carries it; otherwise the loop goes
\* round again.
DrawLeadId(r, suffix) ==
    /\ sessions[r].pc = "generate"
    /\ LET lead_id == LeadIdOf(YearOf(sessions[r].at), suffix)
       IN  sessions' = [sessions EXCEPT ![r] =
              [@ EXCEPT !.lead_id = <<lead_id>>,
                        !.pc = IF UnusedLeadId(leads, lead_id)
                               THEN "insert" ELSE "generate"]]
    /\ UNCHANGED <<users, leads, commissions, settings, now, resp>>

\* create_lead: db.session.add and db.session.commit; the unique
\* constraint of lead_id fails the INSERT of an identifier another request
\* has committed since the loop returned.
CommitSubmit(r) ==
    /\ sessions[r].pc = "insert"
    /\ IF UnusedLeadId(leads, sessions[r].lead_id[1])
       THEN /\ Len(leads) < MaxLeads
            /\ leads' = Append(leads,
                   NewLead(sessions[r].user, NULL, sessions[r].lead_id[1],
                           now))
            /\ sessions' = [sessions EXCEPT ![r] =
                  [@ EXCEPT !.pc = "done", !.code = "OK",
                            !.lead = Len(leads) + 1]]
       ELSE /\ UNCHANGED leads
            /\ sessions' = [sessions EXCEPT ![r] =
                  [@ EXCEPT !.pc = "done", !.code = "INTERNAL_ERROR"]]
    /\ UNCHANGED <<users, commissions, settings, now, resp>>

Init ==
    /\ users = <<>>
    /\ leads = <<>>
    /\ commissions = <<>>
    /\ settings = <<>>
    /\ now = 1
    /\ resp = NoResp
    /\ sessions = [r \in Sessions |-> NoSession]

Next ==
    \/ GetActive
    \/ \E p \in PctInputs, r \in PctInputs : SetNew(p, r)
    \/ \E code \in 0 .. Len(users) + 1 : Register(code)
    \/ \E u \in Ids(users), paypal \in BOOLEAN, bank \in BOOLEAN :
          UpdateProfile(u, paypal, bank)
    \/ \E u \in Ids(users), sec \in 0 .. Len(users) + 1,
          suffix \in SuffixInputs : Submit(u, sec, suffix)
    \/ \E u \in Ids(users), l \in 1 .. Len(leads) + 1,
          notes \in ContentInputs : UpdateLead(u, l, notes)
    \/ \E u \in Ids(users), l \in 1 .. Len(leads) + 1,
          filename \in FileNames : UploadLeadAttachment(u, l, filename)
    \/ \E l \in 1 .. Len(leads) + 1, st \in StatusInputs,
          notes \in NoteInputs : UpdateLeadStatus(l, st, notes)
    \/ \E l \in 1 .. Len(leads) + 1, d \in DealValues : ConvertLead(l, d)
    \/ \E c \in Ids(commissions) : Approve(c)
    \/ \E c \in Ids(commissions) : MarkPaid(c)
    \/ \E u \in 1 .. Len(users) + 1, a \in ManualAmounts : CreateManual(u, a)
    \/ \E u \in Ids(users), a \in PayoutAmounts, m \in MethodInputs :
          RequestPayout(u, a, m)
    \/ \E r \in Sessions, l \in 1 .. Len(leads) + 1 : ReadStatus(r, l)
    \/ \E r \in Sessions : WriteStatus(r)
    \/ \E r \in Sessions : LookupSettings(r)
    \/ \E r \in Sessions : CreatePrimary(r)
    \/ \E r \in Sessions : LookupReferrer(r)
    \/ \E r \in Sessions : CreateReferral(r)
    \/ \E r \in Sessions : CommitConversion(r)
    \/ \E r \in Sessions : Raise(r)
    \/ \E r \in Sessions, u \in Ids(users), a \in PayoutAmounts,
          m \in MethodInputs : CheckBalance(r, u, a, m)
    \/ \E r \in Sessions : ReadApproved(r)
    \/ \E r \in Sessions : StampSelected(r)
    \/ \E r \in Sessions : CommitPayout(r)
    \/ \E r \in Sessions, u \in Ids(users) : BeginSubmit(r, u)
    \/ \E r \in Sessions, suffix \in SuffixInputs : DrawLeadId(r, suffix)
    \/ \E r \in Sessions : CommitSubmit(r)
    \/ \E u \in 1 .. Len(users) + 1 : GetReferralTree(u)
    \/ \E u \in 1 .. Len(users) + 1 : GetUserTree(u)
    \/ \E u \in Ids(users), d \in 0 .. AdminTreeDepth : CallBuildTree(u, d)
    \/ \E u \in Ids(users), t \in 1 .. MaxTime :
          MonthlyEarnings(u, YearOf(t), MonthOf(t))
    \/ Tick

Spec == Init /\ [][Next]_vars

(***************************************************************************)
(* Scenarios: the same handlers from the same initial state, each with the *)
(* operations and the inputs of one component.                             *)
(***************************************************************************)
\* The rate settings store alone.
NextSettings ==
    \/ GetActive
    \/ \E p \in PctInputs, r \in PctInputs : SetNew(p, r)
    \/ Tick

SpecSettings == Init /\ [][NextSettings]_vars

\* The settings store with the conversions that read it, through both
\* routes that move a lead to sold.
NextRates ==
    \/ GetActive
    \/ \E p \in PctInputs : SetNew(p, DefaultReferringPct)
    \/ Register(NULL)
    \/ \E u \in Ids(users) : Submit(u, NULL, Len(leads))
    \/ \E l \in Ids(leads) : UpdateLeadStatus(l, "sold", "")
    \/ \E l \in Ids(leads) : ConvertLead(l, DefaultDealValue)

SpecRates == Init /\ [][NextRates]_vars

\* Lead lifecycle and conversion with the settings store, valid inputs.
NextLead ==
    \/ GetActive
    \/ \E p \in PctInputs, r \in PctInputs : SetNew(p, r)
    \/ \E code \in 0 .. Len(users) : Register(code)
    \/ \E u \in Ids(users), sec \in {NULL, 1} : Submit(u, sec, Len(leads))
    \/ \E l \in Ids(leads), st \in {"qualified", "sold"} :
          UpdateLeadStatus(l, st, "")
    \/ \E l \in Ids(leads), d \in DealValues : ConvertLead(l, d)

SpecLead == Init /\ [][NextLead]_vars

(***************************************************************************)
(* Properties.                                                             *)
(***************************************************************************)
Submitter(l) == leads[l].submitted_by_id
Referrer(l) == users[Submitter(l)].referred_by_id
ConvertedOk == resp.op = "convert" /\ resp.code = "OK"

\* C1: a conversion of a lead whose submitter has a referrer, with deal
\* value d, creates exactly two commissions for the lead, a primary one for
\* the submitter and a referral one for the referrer, with the percentages
\* of the active settings row and amounts that sum to
\* d * (primaryPct + referringPct) / 100.
C1_ReferredConversion ==
    (ConvertedOk /\ Referrer(resp.lead) # NULL) =>
        /\ Cardinality(resp.created) = 2
        /\ \A i \in resp.created : commissions[i].lead_id = resp.lead
        /\ \A s \in CurrentCandidates(settings) :
              \E a, b \in resp.created :
                 /\ commissions[a].commission_type = "primary"
                 /\ commissions[a].affiliate_id = Submitter(resp.lead)
                 /\ commissions[a].percentage =
                        settings[s].primary_affiliate_percentage
                 /\ commissions[b].commission_type = "referral"
                 /\ commissions[b].affiliate_id = Referrer(resp.lead)
                 /\ commissions[b].percentage =
                        settings[s].referring_affiliate_percentage
                 /\ (commissions[a].amount + commissions[b].amount) * 100 =
                        resp.amount *
                           (settings[s].primary_affiliate_percentage
                            + settings[s].referring_affiliate_percentage)

\* C2: a conversion of a lead whose submitter has no referrer, with deal
\* value d, creates exactly one commission: primary, for the submitter,
\* amount d * primaryPct / 100, pending, with no payout, approval or payment
\* stamp; nobody else (the secondary referrer included) receives one.
C2_UnreferredConversion ==
    (ConvertedOk /\ Referrer(resp.lead) = NULL) =>
        /\ Cardinality(resp.created) = 1
        /\ \A i \in resp.created, s \in CurrentCandidates(settings) :
              /\ commissions[i].lead_id = resp.lead
              /\ commissions[i].commission_type = "primary"
              /\ commissions[i].affiliate_id = Submitter(resp.lead)
              /\ commissions[i].percentage =
                     settings[s].primary_affiliate_percentage
              /\ commissions[i].amount * 100 =
                     resp.amount * settings[s].primary_affiliate_percentage
              /\ commissions[i].status = "pending"
              /\ commissions[i].payout_requested_at = NULL
              /\ commissions[i].approved_at = NULL
              /\ commissions[i].paid_at = NULL

\* C3: a call that would move an already sold lead to sold, by the convert
\* operation or by the status transition with newStatus = sold, fails with
\* AlreadyConverted and leaves the lead and the commissions unchanged.
C3_ReconvertRejected ==
    [][\A l \in Ids(leads) :
          (/\ leads[l].status = "sold"
           /\ \/ \E d \in DealValues : ConvertLead(l, d)
              \/ \E n \in NoteInputs : UpdateLeadStatus(l, "sold", n))
          => /\ resp'.code = "ALREADY_CONVERTED"
             /\ commissions' = commissions
             /\ leads' = leads]_vars

\* C8: at most one settings row is active, in every state reached by
\* getActive, setNew and conversions.
C8_AtMostOneActive == Cardinality(ActiveRows(settings)) <= 1

C8_Witness ==
    /\ Len(settings) >= 2
    /\ ActiveRows(settings) = {Len(settings)}
    /\ ConvertedOk
    /\ resp.created # {}

\* C9: after setNew(p, r), getActive returns exactly the new row with
\* percentages p and r and inserts nothing, every earlier row is inactive,
\* and the percentages and effective_from of the earlier rows are unchanged.
C9_SetNewSupersedes ==
    [][\A p \in PctInputs, r \in PctInputs :
          SetNew(p, r) =>
             /\ Len(settings') = Len(settings) + 1
             /\ CurrentCandidates(settings') = {Len(settings')}
             /\ SettingsAfterGet(settings', now') = settings'
             /\ settings'[Len(settings')].primary_affiliate_percentage = p
             /\ settings'[Len(settings')].referring_affiliate_percentage = r
             /\ \A i \in Ids(settings) :
                   /\ ~settings'[i].is_active
                   /\ settings'[i].primary_affiliate_percentage =
                          settings[i].primary_affiliate_percentage
                   /\ settings'[i].referring_affiliate_percentage =
                          settings[i].referring_affiliate_percentage
                   /\ settings'[i].effective_from =
                          settings[i].effective_from]_vars

C9_Witness ==
    /\ resp.op = "setNew"
    /\ Len(settings) >= 2
    /\ settings[1].is_active = FALSE
    /\ settings[1].effective_from < settings[Len(settings)].effective_from

\* Payout requests of affiliates without referrers, over conversions at the
\* default deal value.
NextPayout ==
    \/ Register(NULL)
    \/ \E u \in Ids(users) : UpdateProfile(u, TRUE, FALSE)
    \/ \E u \in Ids(users) : Submit(u, NULL, Len(leads))
    \/ \E p \in PctInputs : SetNew(p, DefaultReferringPct)
    \/ \E l \in Ids(leads) : ConvertLead(l, DefaultDealValue)
    \/ \E c \in Ids(commissions) : Approve(c)
    \/ \E u \in Ids(users), a \in PayoutAmounts, m \in MethodInputs :
          RequestPayout(u, a, m)
    \/ Tick

SpecPayout == Init /\ [][NextPayout]_vars

\* The commission ledger: approval, payment, manual creation and payout
\* requests over conversions at the default deal value.
NextLedger ==
    \/ Register(NULL)
    \/ \E u \in Ids(users) : UpdateProfile(u, TRUE, FALSE)
    \/ \E u \in Ids(users) : Submit(u, NULL, Len(leads))
    \/ \E l \in Ids(leads) : ConvertLead(l, DefaultDealValue)
    \/ \E c \in Ids(commissions) : Approve(c)
    \/ \E c \in Ids(commissions) : MarkPaid(c)
    \/ \E u \in 1 .. Len(users) + 1, a \in ManualAmounts : CreateManual(u, a)
    \/ \E u \in Ids(users), a \in PayoutAmounts \cap Nat, m \in PaymentMethods :
          RequestPayout(u, a, m)
    \/ Tick

SpecLedger == Init /\ [][NextLedger]_vars

PaidOutOk == resp.op = "payout" /\ resp.code = "OK"

\* The walk the allocation is specified as: a commission that does not fit
\* the remaining amount is skipped and the walk goes on with the next one.
RECURSIVE SkipWalk(_, _, _, _)
SkipWalk(cs, order, i, remaining) ==
    IF i > Len(order) \/ remaining <= 0 THEN {}
    ELSE IF cs[order[i]].amount <= remaining
         THEN {order[i]} \cup
              SkipWalk(cs, order, i + 1, remaining - cs[order[i]].amount)
         ELSE SkipWalk(cs, order, i + 1, remaining)

\* C4: a successful payout request stamps exactly the commissions selected
\* by walking the affiliate's approved commissions oldest-first, taking each
\* one that fits the remaining amount and skipping (not stopping at) each
\* one that does not.
C4_SkipAndContinue ==
    [][\A u \in Ids(users), a \in PayoutAmounts, m \in MethodInputs :
          (RequestPayout(u, a, m) /\ resp'.code = "OK") =>
             \E order \in CreatedOrders(commissions,
                                        ApprovedOf(commissions, u)) :
                resp'.stamped = SkipWalk(commissions, order, 1, a)]_vars

\* C5: the amount in the summary of a successful payout request is the sum
\* of the amounts of the commissions the request stamped.
C5_SummaryIsAllocated ==
    PaidOutOk => resp.amount = SumOver(resp.stamped, Amounts(commissions))

ExpectedPayoutCode(cs, us, u, amount, method) ==
    IF amount <= 0 THEN "INVALID_AMOUNT"
    ELSE IF amount > GetTotalByAffiliate(cs, u, "approved")
         THEN "INSUFFICIENT_BALANCE"
    ELSE IF method \notin PaymentMethods THEN "INVALID_PAYMENT_METHOD"
    ELSE IF method = "paypal" /\ ~us[u].paypal_email
         THEN "MISSING_PAYMENT_INFO"
    ELSE IF method = "bank_transfer" /\ ~us[u].bank_account_number
         THEN "MISSING_PAYMENT_INFO"
    ELSE "OK"

\* C7: a payout request with a method given fails with InvalidAmount when
\* amount <= 0, InsufficientBalance when the amount exceeds the approved
\* total, InvalidPaymentMethod for an unknown method and MissingPaymentInfo
\* when the profile lacks the field of the method; a failed request changes
\* no commission.
C7_PayoutErrors ==
    [][\A u \in Ids(users), a \in PayoutAmounts,
          m \in MethodInputs \ {""} :
          RequestPayout(u, a, m) =>
             /\ resp'.code =
                   ExpectedPayoutCode(commissions, users, u, a, m)
             /\ resp'.code # "OK" => commissions' = commissions]_vars

StatusRank(st) ==
    IF st = "pending" THEN 0 ELSE IF st = "approved" THEN 1 ELSE 2

\* C10: no step moves the status of a commission backward in the order
\* pending < approved < paid.
C10_StatusForwardOnly ==
    [][\A i \in Ids(commissions) :
          StatusRank(commissions'[i].status)
             >= StatusRank(commissions[i].status)]_vars

\* C11: approve fails with InvalidTransition on a commission that is not
\* pending and markPaid fails with InvalidTransition on a commission that
\* is not approved; the failed call leaves status, approved_at and paid_at
\* of the commission as they were.
C11_GuardedTransitions ==
    [][\A c \in Ids(commissions) :
          /\ (Approve(c) /\ commissions[c].status # "pending") =>
                /\ resp'.code = "INVALID_TRANSITION"
                /\ commissions'[c].status = commissions[c].status
                /\ commissions'[c].approved_at = commissions[c].approved_at
                /\ commissions'[c].paid_at = commissions[c].paid_at
          /\ (MarkPaid(c) /\ commissions[c].status # "approved") =>
                /\ resp'.code = "INVALID_TRANSITION"
                /\ commissions'[c].status = commissions[c].status
                /\ commissions'[c].approved_at = commissions[c].approved_at
                /\ commissions'[c].paid_at = commissions[c].paid_at]_vars

\* C12: createManual for an existing affiliate with amount > 0 succeeds and
\* adds exactly one commission, of type manual, approved, without a lead,
\* of the given amount, which raises the approved total of the affiliate by
\* that amount; with amount <= 0 it fails with InvalidAmount and adds none.
C12_ManualCommission ==
    [][\A u \in Ids(users), a \in ManualAmounts :
          CreateManual(u, a) =>
             IF a > 0
             THEN /\ resp'.code = "OK"
                  /\ Len(commissions') = Len(commissions) + 1
                  /\ \A i \in Ids(commissions) :
                        commissions'[i] = commissions[i]
                  /\ LET new == commissions'[Len(commissions')]
                     IN  /\ new.commission_type = "manual"
                         /\ new.status = "approved"
                         /\ new.lead_id = NULL
                         /\ new.affiliate_id = u
                         /\ new.amount = a
                  /\ GetTotalByAffiliate(commissions', u, "approved") =
                        GetTotalByAffiliate(commissions, u, "approved") + a
             ELSE /\ resp'.code = "INVALID_AMOUNT"
                  /\ commissions' = commissions]_vars

\* The order of the lead statuses; sold and unqualified are both last.
LeadRank(st) ==
    IF st = "submitted" THEN 0
    ELSE IF st = "in_review" THEN 1
    ELSE IF st = "qualified" THEN 2
    ELSE 3

\* C13: every change of a lead's status moves it strictly forward in the
\* order submitted < in_review < qualified < sold | unqualified, and the
\* status of a lead that is sold or unqualified never changes again.
C13_LeadForwardOnly ==
    [][\A l \in Ids(leads) :
          leads'[l].status # leads[l].status =>
             /\ leads[l].status \notin {"sold", "unqualified"}
             /\ LeadRank(leads'[l].status) > LeadRank(leads[l].status)]_vars

\* Content edits by the submitters, over leads in every status.
NextEdit ==
    \/ Register(NULL)
    \/ \E u \in Ids(users) : Submit(u, NULL, Len(leads))
    \/ \E l \in Ids(leads), st \in {"qualified", "unqualified"} :
          UpdateLeadStatus(l, st, "")
    \/ \E l \in Ids(leads) : ConvertLead(l, DefaultDealValue)
    \/ \E u \in Ids(users), l \in Ids(leads), notes \in ContentInputs :
          UpdateLead(u, l, notes)
    \/ \E u \in Ids(users), l \in Ids(leads), filename \in FileNames :
          UploadLeadAttachment(u, l, filename)
    \/ Tick

SpecEdit == Init /\ [][NextEdit]_vars

Locked(l) == leads[l].status \in {"sold", "unqualified"}

\* C14: a field update or an attachment upload by the submitter of a lead
\* that is sold or unqualified fails with LeadLocked and leaves every field
\* of the lead (updated_at and attachment_url included) unchanged; on a
\* lead in one of the other three statuses the edit succeeds.
C14_LockedLeadEdits ==
    [][\A u \in Ids(users), l \in Ids(leads) :
          leads[l].submitted_by_id = u =>
             /\ \A n \in ContentInputs :
                   UpdateLead(u, l, n) =>
                      IF Locked(l)
                      THEN /\ resp'.code = "LEAD_LOCKED"
                           /\ leads'[l] = leads[l]
                      ELSE resp'.code = "OK"
             /\ \A f \in FileNames \ {""} :
                   UploadLeadAttachment(u, l, f) =>
                      IF Locked(l)
                      THEN /\ resp'.code = "LEAD_LOCKED"
                           /\ leads'[l] = leads[l]
                      ELSE resp'.code = "OK"]_vars

\* Submissions with every number the identifier generator may draw, among
\* conversions.
NextSubmit ==
    \/ Register(NULL)
    \/ \E u \in Ids(users), suffix \in SuffixInputs : Submit(u, NULL, suffix)
    \/ \E l \in Ids(leads) : ConvertLead(l, DefaultDealValue)
    \/ Tick

SpecSubmit == Init /\ [][NextSubmit]_vars

\* C15: no two leads share an identifier, and a submission adds one lead,
\* in status submitted, without conversion timestamp and without
\* commissions, whose identifier is that of no earlier lead.
C15_FreshIdentifier ==
    /\ [](\A i, j \in Ids(leads) :
             i # j => leads[i].lead_id # leads[j].lead_id)
    /\ [][\A u \in Ids(users), suffix \in SuffixInputs :
             (Submit(u, NULL, suffix) /\ resp'.code = "OK") =>
                /\ Len(leads') = Len(leads) + 1
                /\ \A i \in Ids(leads) :
                      /\ leads'[i] = leads[i]
                      /\ leads[i].lead_id # leads'[Len(leads')].lead_id
                /\ leads'[Len(leads')].status = "submitted"
                /\ leads'[Len(leads')].converted_at = NULL
                /\ \A c \in Ids(commissions') :
                      commissions'[c].lead_id # Len(leads')
                /\ commissions' = commissions]_vars

C15_Witness ==
    /\ resp.op = "submit"
    /\ resp.code = "OK"
    /\ Len(leads) = 2
    /\ leads[1].lead_id[1] = leads[2].lead_id[1]
    /\ leads[1].status = "sold"
    /\ commissions # <<>>

\* One conversion at a time, step by step, where any step may raise.
NextConvertFaults ==
    \/ \E code \in 0 .. Len(users) : Register(code)
    \/ \E u \in Ids(users) : Submit(u, NULL, Len(leads))
    \/ \E p \in PctInputs : SetNew(p, DefaultReferringPct)
    \/ \E l \in 1 .. Len(leads) + 1 : ReadStatus(1, l)
    \/ WriteStatus(1)
    \/ LookupSettings(1)
    \/ CreatePrimary(1)
    \/ LookupReferrer(1)
    \/ CreateReferral(1)
    \/ CommitConversion(1)
    \/ Raise(1)
    \/ Tick

SpecConvertFaults == Init /\ [][NextConvertFaults]_vars

\* The commissions of lead l of the given type among the rows ids.
RowsOf(ids, l, type) ==
    {c \in ids : commissions[c].lead_id = l
                    /\ commissions[c].commission_type = type}

\* C16: when a conversion call has ended, either the lead is sold with its
\* conversion timestamp set and the commissions of the conversion exist
\* (the primary one, and the referral one when the submitter has a
\* referrer), or the status and the conversion timestamp of the lead and
\* the commission table are as they were when the call began, whichever
\* step of the call failed.
C16_AllOrNothing ==
    \A r \in Sessions :
       LET sn == sessions[r]
       IN  (sn.op = "convert" /\ sn.pc = "done" /\ sn.pre # <<>>) =>
              \/ /\ leads[sn.lead].status = "sold"
                 /\ leads[sn.lead].converted_at # NULL
                 /\ RowsOf(sn.created, sn.lead, "primary") # {}
                 /\ Referrer(sn.lead) # NULL =>
                       RowsOf(sn.created, sn.lead, "referral") # {}
              \/ /\ leads[sn.lead].status = sn.pre[1].status
                 /\ leads[sn.lead].converted_at = sn.pre[1].converted_at
                 /\ commissions = sn.pre[1].commissions

\* Conversions in concurrent requests, step by step, without failures.
NextConvertRace ==
    \/ \E code \in 0 .. Len(users) : Register(code)
    \/ \E u \in Ids(users) : Submit(u, NULL, Len(leads))
    \/ \E r \in Sessions, l \in Ids(leads) : ReadStatus(r, l)
    \/ \E r \in Sessions : WriteStatus(r)
    \/ \E r \in Sessions : LookupSettings(r)
    \/ \E r \in Sessions : CreatePrimary(r)
    \/ \E r \in Sessions : LookupReferrer(r)
    \/ \E r \in Sessions : CreateReferral(r)
    \/ \E r \in Sessions : CommitConversion(r)

SpecConvertRace == Init /\ [][NextConvertRace]_vars

NextPayoutRace ==
    \/ Register(NULL)
    \/ \E u \in Ids(users) : UpdateProfile(u, TRUE, FALSE)
    \/ \E u \in Ids(users) : Submit(u, NULL, Len(leads))
    \/ \E l \in Ids(leads) : ConvertLead(l, DefaultDealValue)
    \/ \E c \in Ids(commissions) : Approve(c)
    \/ \E r \in Sessions, u \in Ids(users), a \in {250, 600} :
          CheckBalance(r, u, a, "paypal")
    \/ \E r \in Sessions : ReadApproved(r)
    \/ \E r \in Sessions : StampSelected(r)
    \/ \E r \in Sessions : CommitPayout(r)

SpecPayoutRace == Init /\ [][NextPayoutRace]_vars

ReferralForests ==
    UNION {{us \in [1 .. n -> {NewUser(ref) : ref \in 0 .. MaxTreeUsers - 1}]
               : \A i \in 1 .. n : us[i].referred_by_id < i}
           : n \in 0 .. MaxTreeUsers}

InitTree ==
    /\ users \in ReferralForests
    /\ leads = <<>>
    /\ commissions = <<>>
    /\ settings = <<>>
    /\ now = 1
    /\ resp = NoResp
    /\ sessions = [r \in Sessions |-> NoSession]

\* The referral trees of the two routes over every such user table.
NextTree ==
    \/ \E u \in 1 .. Len(users) + 1 : GetReferralTree(u)
    \/ \E u \in 1 .. Len(users) + 1 : GetUserTree(u)

SpecTree == InitTree /\ [][NextTree]_vars

\* The level of user v below root: 0 for root itself, -1 when v is not in
\* the referral tree of root.
RECURSIVE LevelBelow(_, _, _)
LevelBelow(us, v, root) ==
    IF v = root THEN 0
    ELSE IF us[v].referred_by_id = NULL THEN -1
    ELSE LET above == LevelBelow(us, us[v].referred_by_id, root)
         IN  IF above < 0 THEN -1 ELSE above + 1

\* The nodes of a tree with their levels, the root of the tree at `level`.
RECURSIVE TreeNodes(_, _)
TreeNodes(tree, level) ==
    IF tree.id = NULL THEN {}
    ELSE {<<tree.id, level>>} \cup
         UNION {TreeNodes(child, level + 1) : child \in tree.children}

\* C19: buildTree(root, maxDepth) returns the root at level 0 and every
\* descendant at the levels 1 .. maxDepth, and no node deeper than
\* maxDepth.
C19_TreeLevels ==
    (resp.op = "tree" /\ resp.code = "OK") =>
        TreeNodes(resp.tree, 0) =
           {<<v, LevelBelow(users, v, resp.user)>> :
               v \in {w \in Ids(users) :
                         LevelBelow(users, w, resp.user)
                            \in 0 .. resp.args[1]}}

\* The clock readings the payments of the ledgers below carry: two months
\* of one year and the first of them a year later.
PaidInstants == {1, 2, MonthsPerYear + 1}

\* The commission rows of the lead of user u that conversion, approval and
\* payment can leave.
LedgerRows ==
    {[NewCommission(u, u, "primary", DefaultPrimaryPct,
                    (BaseAmount * DefaultPrimaryPct) \div 100, st[1], 1)
         EXCEPT !.approved_at = st[2], !.paid_at = st[3]] :
        u \in 1 .. 2,
        st \in {<<"pending", NULL, NULL>>, <<"approved", 1, NULL>>}
               \cup {<<"paid", 1, t>> : t \in PaidInstants}
               \cup {<<"paid", NULL, t>> : t \in PaidInstants}
               \cup {<<"approved", t, t>> : t \in PaidInstants}}

\* Two affiliates without referrers, a sold lead of each, and any ledger
\* of their commissions, a year and a month after the first conversion.
InitEarnings ==
    /\ users = <<NewUser(NULL), NewUser(NULL)>>
    /\ leads = [l \in 1 .. 2 |->
                  StatusRow(NewLead(l, NULL, LeadIdOf(0, l), 1),
                            "sold", "", 1)]
    /\ commissions \in UNION {[1 .. n -> LedgerRows] : n \in 0 .. MaxLedgerRows}
    /\ settings = <<DefaultSettingsRow(1)>>
    /\ now = MonthsPerYear + 1
    /\ resp = NoResp
    /\ sessions = [r \in Sessions |-> NoSession]

NextEarnings ==
    \E u \in Ids(users), t \in PaidInstants :
       MonthlyEarnings(u, YearOf(t), MonthOf(t))

SpecEarnings == InitEarnings /\ [][NextEarnings]_vars

\* The clock reading of month `month` of year `year`.
InstantOf(year, month) == year * MonthsPerYear + month

\* C20: monthlyEarnings(affiliate, year, month) is the sum of the amounts of
\* the commissions of the affiliate that are paid and whose paid_at lies in
\* that month of that year; every other commission contributes nothing,
\* and the result is 0 when there is none.
C20_MonthlyEarnings ==
    resp.op = "earnings" =>
       resp.amount =
          SumOver(Ids(commissions),
                  [i \in Ids(commissions) |->
                     IF /\ commissions[i].affiliate_id = resp.user
                        /\ commissions[i].status = "paid"
                        /\ commissions[i].paid_at =
                              InstantOf(resp.args[1], resp.args[2])
                     THEN commissions[i].amount
                     ELSE 0])

C20_Witness ==
    /\ resp.op = "earnings"
    /\ resp.amount > 0
    /\ \E i \in Ids(commissions) :
          /\ commissions[i].affiliate_id = resp.user
          /\ commissions[i].status = "paid"
          /\ YearOf(commissions[i].paid_at) # resp.args[1]
          /\ MonthOf(commissions[i].paid_at) = resp.args[2]

\* Registrations with every referral code, profile updates, and the
\* referral trees read in between.
NextReferral ==
    \/ \E code \in 0 .. Len(users) + 1 : Register(code)
    \/ \E u \in Ids(users), paypal \in BOOLEAN, bank \in BOOLEAN :
          UpdateProfile(u, paypal, bank)
    \/ \E u \in Ids(users) : GetReferralTree(u)

SpecReferral == Init /\ [][NextReferral]_vars

\* The users reached from u by following referred_by for up to k steps.
RECURSIVE ReferrerChain(_, _, _)
ReferrerChain(us, u, k) ==
    IF k = 0 \/ us[u].referred_by_id = NULL THEN {}
    ELSE {us[u].referred_by_id} \cup
         ReferrerChain(us, us[u].referred_by_id, k - 1)

\* C21: over registrations and profile updates the referred_by relation is
\* a forest (following referred_by from a user never returns to that
\* user), and the referred_by of an existing user never changes.
C21_ReferralForest ==
    /\ [](\A u \in Ids(users) : u \notin ReferrerChain(users, u, Len(users)))
    /\ [][\A u \in Ids(users) :
             users'[u].referred_by_id = users[u].referred_by_id]_vars

C21_Witness ==
    /\ Len(users) = 2
    /\ users[2].referred_by_id = 1
    /\ users[1].paypal_email
    /\ users[2].bank_account_number
    /\ resp.op = "profile"

\* C22: getActive returns the active row of the most recent effective_from
\* and inserts nothing when an active row exists; without one it inserts
\* exactly one default row (50, 25, active) and returns it; a getActive
\* that follows a getActive returns the same row and adds no row.
C22_GetActive ==
    [][GetActive =>
          /\ IF ActiveRows(settings) # {}
             THEN /\ settings' = settings
                  /\ resp'.row \in ActiveRows(settings)
                  /\ \A j \in ActiveRows(settings) :
                        settings[j].effective_from
                           <= settings[resp'.row].effective_from
             ELSE /\ Len(settings') = Len(settings) + 1
                  /\ \A i \in Ids(settings) : settings'[i] = settings[i]
                  /\ resp'.row = Len(settings')
                  /\ settings'[resp'.row].primary_affiliate_percentage = 50
                  /\ settings'[resp'.row].referring_affiliate_percentage = 25
                  /\ settings'[resp'.row].is_active
          /\ resp.op = "getActive" =>
                /\ resp'.row = resp.row
                /\ settings' = settings]_vars

C22_Witness ==
    /\ resp.op = "getActive"
    /\ resp.row = 1
    /\ Len(settings) = 1
    /\ settings[1] = DefaultSettingsRow(1)
    /\ now > 1

\* Status transitions to every status, with and without a note, on leads
\* of referred and unreferred submitters.
NextTransition ==
    \/ \E code \in 0 .. Len(users) : Register(code)
    \/ \E u \in Ids(users) : Submit(u, NULL, Len(leads))
    \/ \E l \in Ids(leads), st \in LeadStatuses, notes \in NoteInputs :
          UpdateLeadStatus(l, st, notes)
    \/ Tick

SpecTransition == Init /\ [][NextTransition]_vars

\* C23: a successful transition of a lead that is not sold to sold sets
\* the conversion timestamp and generates the commissions of one
\* conversion (one primary, and one referral when the submitter has a
\* referrer); a transition to another status creates no commission and
\* leaves the conversion timestamp as it was; a transition without a note
\* leaves the administrative note as it was.
C23_TransitionEffects ==
    [][\A l \in Ids(leads), st \in LeadStatuses, n \in NoteInputs :
          (UpdateLeadStatus(l, st, n) /\ resp'.code = "OK") =>
             /\ (st = "sold" /\ leads[l].status # "sold") =>
                   /\ leads'[l].converted_at = now
                   /\ leads'[l].converted_at # NULL
                   /\ \A c \in Ids(commissions) :
                         commissions'[c] = commissions[c]
                   /\ LET new == Ids(commissions') \ Ids(commissions)
                          of(type) ==
                             {c \in new :
                                 /\ commissions'[c].lead_id = l
                                 /\ commissions'[c].commission_type = type}
                      IN  /\ Cardinality(of("primary")) = 1
                          /\ Cardinality(of("referral")) =
                                IF Referrer(l) # NULL THEN 1 ELSE 0
                          /\ Cardinality(new) =
                                IF Referrer(l) # NULL THEN 2 ELSE 1
             /\ st # "sold" =>
                   /\ commissions' = commissions
                   /\ leads'[l].converted_at = leads[l].converted_at
             /\ n = "" => leads'[l].admin_notes = leads[l].admin_notes]_vars

C23_Witness ==
    /\ resp.op = "transition"
    /\ resp.code = "OK"
    /\ resp.arg = "sold"
    /\ Cardinality(resp.created) = 2
    /\ leads[resp.lead].admin_notes = "note"
    /\ leads[resp.lead].converted_at = 2

\* The user tables with any referred_by graph, those with cycles included
\* (which no handler produces: a change of referred_by_id made in the
\* database would).
ReferralGraphs ==
    UNION {[1 .. n -> {NewUser(ref) : ref \in 0 .. n}]
           : n \in 0 .. MaxGraphUsers}

InitGraph ==
    /\ users \in ReferralGraphs
    /\ leads = <<>>
    /\ commissions = <<>>
    /\ settings = <<>>
    /\ now = 1
    /\ resp = NoResp
    /\ sessions = [r \in Sessions |-> NoSession]

\* build_tree from every user of every such graph, with every max_depth up
\* to the largest one a route uses.
NextGraph ==
    \E u \in Ids(users), d \in 0 .. AdminTreeDepth : CallBuildTree(u, d)

SpecGraph == InitGraph /\ [][NextGraph]_vars

\* The number of sequences of at most d users out of n (an upper bound of
\* the number of nodes a tree of depth d over n users has).
RECURSIVE PathBound(_, _)
PathBound(n, d) == IF d = 0 THEN 0 ELSE 1 + n * PathBound(n, d - 1)

\* C24: buildTree returns on every referral graph, cyclic ones included,
\* and for every maxDepth >= 0: a node at level k is built by a call at
\* recursion depth k, the calls below it are at depth k + 1 <= maxDepth,
\* and the tree returned is finite.
C24_TreeBounded ==
    resp.op = "buildTree" =>
       /\ \A node \in TreeNodes(resp.tree, 0) : node[2] + 1 <= resp.args[1]
       /\ Cardinality(TreeNodes(resp.tree, 0))
             <= PathBound(Len(users), resp.args[1])
       /\ (resp.args[1] = 0) = (resp.tree = NoTree)

C24_Witness ==
    /\ resp.op = "buildTree"
    /\ resp.args[1] = AdminTreeDepth
    /\ resp.user \in ReferrerChain(users, resp.user, Len(users))
    /\ \E node \in TreeNodes(resp.tree, 0) :
          node[1] = resp.user /\ node[2] > 0

\* A year whose identifiers are as many as the leads table holds rows (of
\* the thousand of LEAD-YYYY-000 .. LEAD-YYYY-999).
YearSuffixes == 0 .. MaxLeads - 1

\* Submissions step by step, the numbers drawn from the identifiers of one
\* year.
NextSubmitLoop ==
    \/ Register(NULL)
    \/ \E r \in Sessions, u \in Ids(users) : BeginSubmit(r, u)
    \/ \E r \in Sessions, suffix \in YearSuffixes : DrawLeadId(r, suffix)
    \/ \E r \in Sessions : CommitSubmit(r)

\* Every request in flight keeps running; a loop that draws at random
\* among numbers of which one is unused draws an unused one in the end.
FairSubmitLoop ==
    /\ Init
    /\ [][NextSubmitLoop]_vars
    /\ \A r \in Sessions :
          /\ WF_vars(\E suffix \in YearSuffixes : DrawLeadId(r, suffix))
          /\ SF_vars(\E suffix \in YearSuffixes :
                        DrawLeadId(r, suffix) /\ sessions'[r].pc = "insert")
          /\ WF_vars(CommitSubmit(r))

\* C25: every submission returns: the loop of the identifier generator
\* ends for every set of existing leads, also when every identifier of the
\* current year is taken.
C25_SubmitReturns ==
    \A r \in Sessions :
       (sessions[r].pc = "generate") ~> (sessions[r].pc = "done")

\* The commissions of user u no payout request has been made for.
Unallocated(cs, u) ==
    {i \in ApprovedOf(cs, u) : cs[i].payout_requested_at = NULL}

AllocAmounts == {250, 500, 600}

\* Payout requests by PayPal over commissions at the default rate that are
\* pending, approved or paid.
NextAllocate ==
    \/ Register(NULL)
    \/ \E u \in Ids(users) : UpdateProfile(u, TRUE, FALSE)
    \/ \E u \in Ids(users) : Submit(u, NULL, Len(leads))
    \/ \E l \in Ids(leads) : ConvertLead(l, DefaultDealValue)
    \/ \E c \in Ids(commissions) : Approve(c)
    \/ \E c \in Ids(commissions) : MarkPaid(c)
    \/ \E u \in Ids(users), a \in AllocAmounts : RequestPayout(u, a, "paypal")

SpecAllocate == Init /\ [][NextAllocate]_vars

\* C27: the amounts of the commissions a successful payout request stamps
\* sum to no more than the requested amount, and each of them was a
\* commission of the requesting affiliate in status approved when the
\* request started.
C27_WithinRequest ==
    [][\A u \in Ids(users), a \in AllocAmounts :
          (RequestPayout(u, a, "paypal") /\ resp'.code = "OK") =>
             /\ SumOver(resp'.stamped, Amounts(commissions)) <= a
             /\ \A i \in resp'.stamped :
                   /\ commissions[i].affiliate_id = u
                   /\ commissions[i].status = "approved"]_vars

C27_Witness ==
    /\ PaidOutOk
    /\ resp.stamped # {}
    /\ SumOver(resp.stamped, Amounts(commissions)) < resp.amount
    /\ \E i \in Ids(commissions) \ resp.stamped :
          commissions[i].affiliate_id = resp.user

\* C28: a payout request creates and deletes no commission and changes
\* no column of any commission but payout_requested_at, and that one only
\* on the commissions it selects, which are commissions of the requester:
\* status, amount, percentage, approved_at and paid_at stay as they were.
C28_OnlyStamps ==
    [][\A u \in Ids(users), a \in AllocAmounts :
          RequestPayout(u, a, "paypal") =>
             /\ Len(commissions') = Len(commissions)
             /\ \A i \in Ids(commissions) :
                   /\ [commissions'[i] EXCEPT !.payout_requested_at = NULL]
                         = [commissions[i] EXCEPT
                               !.payout_requested_at = NULL]
                   /\ commissions'[i] # commissions[i] =>
                         /\ i \in resp'.stamped
                         /\ commissions[i].affiliate_id = u
                         /\ commissions'[i].status = "approved"]_vars

C28_Witness ==
    /\ PaidOutOk
    /\ \E i \in resp.stamped, j \in Ids(commissions) :
          /\ commissions[i].payout_requested_at # NULL
          /\ commissions[i].status = "approved"
          /\ commissions[j].affiliate_id # resp.user
          /\ commissions[j].payout_requested_at = NULL

\* C29: the timestamps of every commission agree with its status: a
\* pending commission carries neither approved_at nor paid_at, an approved
\* or paid one carries approved_at, and a commission is paid exactly when
\* it carries paid_at.
C29_TimestampsAgree ==
    \A i \in Ids(commissions) :
       /\ commissions[i].status = "pending" =>
             /\ commissions[i].approved_at = NULL
             /\ commissions[i].paid_at = NULL
       /\ commissions[i].status \in {"approved", "paid"} =>
             commissions[i].approved_at # NULL
       /\ (commissions[i].status = "paid") = (commissions[i].paid_at # NULL)

\* C30: a lead is sold exactly when one primary commission references it,
\* a lead that is not sold is referenced by no commission, and no lead has
\* more than one primary or more than one referral commission.
C30_SoldIffPrimary ==
    \A l \in Ids(leads) :
       /\ (leads[l].status = "sold") =
             (Cardinality(RowsOf(Ids(commissions), l, "primary")) = 1)
       /\ leads[l].status # "sold" =>
             \A i \in Ids(commissions) : commissions[i].lead_id # l
       /\ Cardinality(RowsOf(Ids(commissions), l, "primary")) <= 1
       /\ Cardinality(RowsOf(Ids(commissions), l, "referral")) <= 1

====
